---- MODULE Spec2Model ----
(***************************************************************************)
(* Model of the Sheets foreign data wrapper of src/src/lib.rs: the one     *)
(* ExampleFdw instance (base_url, src_rows, src_idx) and the Guest         *)
(* operations the host calls on it (init, begin_scan, iter_scan, re_scan,  *)
(* end_scan and the five modify operations).  The host may call the        *)
(* operations in any order once init has run.                              *)
(***************************************************************************)
EXTENDS Integers, Sequences, FiniteSets

VARIABLES
    base_url,   \* ExampleFdw.base_url
    src_rows,   \* ExampleFdw.src_rows : Vec<JsonValue>
    src_idx,    \* ExampleFdw.src_idx  : usize
    call,       \* the latest call of the host: its name and its inputs
    ret,        \* what the latest call returned
    row,        \* the cells the latest call pushed on the Row it was handed
    reqs,       \* the HTTP requests the latest call issued
    info,       \* the INFO messages the latest call reported
    scan,       \* history: "closed" after init and end_scan, "open" once
                \* begin_scan succeeds on a closed scan, "reentered" once
                \* begin_scan succeeds on a scan that was not ended
    served      \* history: the rows served since the latest successful
                \* begin_scan

vars == <<base_url, src_rows, src_idx, call, ret, row, reqs, info, scan, served>>

(***************************************************************************)
(* Bounds of the model.                                                    *)
(***************************************************************************)
MaxRows == 2    \* longest table.rows array a response carries
MaxCols == 2    \* longest column list a query requests

(***************************************************************************)
(* Option<T> and Result<T, String>.                                        *)
(***************************************************************************)
None == <<>>
Some(x) == <<x>>
IsSome(o) == o # <<>>
Unwrap(o) == o[1]

Ok(x) == [tag |-> "Ok", val |-> x]
Err(msg) == [tag |-> "Err", msg |-> msg]
Panic == [tag |-> "Panic"]
IsOk(r) == r.tag = "Ok"
IsErr(r) == r.tag = "Err"
Unit == "()"

(***************************************************************************)
(* serde_json::Value.  A number n/2 is kept as its numerator n, so that    *)
(* JNum(3) is 1.5 and JNum(-3) is -1.5.                                    *)
(***************************************************************************)
JNull == [k |-> "null"]
JBool(b) == [k |-> "bool", b |-> b]
JNum(n) == [k |-> "num", n |-> n]
JStr(s) == [k |-> "str", s |-> s]
JArr(a) == [k |-> "arr", a |-> a]
JObj(o) == [k |-> "obj", o |-> o]

\* Value::as_f64 and Value::as_str
as_f64(v) == IF v.k = "num" THEN Some(v.n) ELSE None
as_str(v) == IF v.k = "str" THEN Some(v.s) ELSE None

\* Value::as_array
as_array(v) == IF v.k = "arr" THEN Some(v.a) ELSE None

\* the decimal text of a small unsigned number, as format!("{}", n) writes it
DecimalTokens == <<"0", "1", "2", "3", "4", "5", "6", "7", "8", "9">>
UsizeToString(n) == DecimalTokens[n + 1]

\* serde_json's parse_index: the array index a pointer token stands for
parse_index(tok) ==
    IF \E i \in 1..Len(DecimalTokens) : DecimalTokens[i] = tok
    THEN Some((CHOOSE i \in 1..Len(DecimalTokens) : DecimalTokens[i] = tok) - 1)
    ELSE None

\* one step of Value::pointer: an object is searched by key, an array by
\* index, any other value has no members
PointerStep(target, tok) ==
    CASE target.k = "obj" ->
            IF tok \in DOMAIN target.o THEN Some(target.o[tok]) ELSE None
      [] target.k = "arr" ->
            LET i == parse_index(tok) IN
            IF IsSome(i) /\ Unwrap(i) < Len(target.a)
            THEN Some(target.a[Unwrap(i) + 1])
            ELSE None
      [] OTHER -> None

\* Value::pointer over the tokens of a path "/t1/t2/..."
RECURSIVE Pointer(_, _)
Pointer(value, toks) ==
    IF toks = <<>> THEN Some(value)
    ELSE LET nxt == PointerStep(value, Head(toks)) IN
         IF IsSome(nxt) THEN Pointer(Unwrap(nxt), Tail(toks)) ELSE None

(***************************************************************************)
(* Row materialisation: the body of iter_scan.                             *)
(***************************************************************************)
\* a target column of the query, as ctx.get_columns() hands it over
Column(num, name, type_oid) == [num |-> num, name |-> name, type_oid |-> type_oid]

\* Cell::I64 and Cell::String
CellI64(i) == [t |-> "I64", i |-> i]
CellString(s) == [t |-> "String", s |-> s]

\* format!("/c/{}/v", tgt_col_num - 1), as the tokens of the path
CellPath(tgt_col_num) == <<"c", UsizeToString(tgt_col_num - 1), "v">>

\* src_row.pointer(&format!("/c/{}/v", tgt_col_num - 1))
SrcCell(src_row, tgt_col_num) == Pointer(src_row, CellPath(tgt_col_num))

\* `v as i64` on an f64: the fraction is dropped, towards zero
\* (variant: rounding down instead)
F64AsFloor(n) == n \div 2
F64AsI64(n) == IF n >= 0 THEN n \div 2 ELSE -((-n) \div 2)

\* the match on tgt_col.type_oid(): Ok(Option<Cell>), or the Err that
\* iter_scan returns
Coerce(tgt_col, src) ==
    CASE tgt_col.type_oid = "I64" ->
            Ok(IF IsSome(as_f64(src))
               THEN Some(CellI64(F64AsI64(Unwrap(as_f64(src)))))
               ELSE None)
      [] tgt_col.type_oid = "String" ->
            Ok(IF IsSome(as_str(src))
               THEN Some(CellString(Unwrap(as_str(src))))
               ELSE None)
      [] OTHER ->
            Err("column " \o tgt_col.name \o " data type is not supported")

\* row.push(cell)
\* (variant: pushing at the front)
PushFront(cells, cell) == <<cell>> \o cells
Push(cells, cell) == Append(cells, cell)

\* the cell pushed for a column whose source cell is missing
\* (variant: pushing nothing)
MissingCellSkipped(cells) == cells
MissingCell(cells) == Push(cells, None)

\* the loop over ctx.get_columns(): the cells pushed, and the error that
\* ended the loop early if one did
\* (variant: the cells pushed before the error are taken back)
RECURSIVE MaterializeRollsBack(_, _, _)
MaterializeRollsBack(src_row, cols, cells) ==
    IF cols = <<>> THEN [cells |-> cells, err |-> None]
    ELSE LET tgt_col == Head(cols)
             src == SrcCell(src_row, tgt_col.num)
         IN  IF IsSome(src)
             THEN LET cell == Coerce(tgt_col, Unwrap(src)) IN
                  IF IsErr(cell)
                  THEN [cells |-> <<>>, err |-> Some(cell.msg)]
                  ELSE MaterializeRollsBack(src_row, Tail(cols), Push(cells, cell.val))
             ELSE MaterializeRollsBack(src_row, Tail(cols), MissingCell(cells))
RECURSIVE Materialize(_, _, _)
Materialize(src_row, cols, cells) ==
    IF cols = <<>> THEN [cells |-> cells, err |-> None]
    ELSE LET tgt_col == Head(cols)
             src == SrcCell(src_row, tgt_col.num)
         IN  IF IsSome(src)
             THEN LET cell == Coerce(tgt_col, Unwrap(src)) IN
                  IF IsErr(cell)
                  THEN [cells |-> cells, err |-> Some(cell.msg)]
                  ELSE Materialize(src_row, Tail(cols), Push(cells, cell.val))
             ELSE Materialize(src_row, Tail(cols), MissingCell(cells))

\* this.src_idx >= this.src_rows.len()
Consumed(idx, rows) == idx >= Len(rows)

\* this.src_idx += 1
\* (variant: skipping a record)
AdvanceTwice(idx) == idx + 2
Advance(idx) == idx + 1

(***************************************************************************)
(* Fetch and normalise: the body of begin_scan.                            *)
(***************************************************************************)
\* the value of option `key`, options being the (key, value) pairs of
\* ctx.get_options(..)
OptGet(opts, key) ==
    IF \E i \in 1..Len(opts) : opts[i][1] = key
    THEN Some(opts[CHOOSE i \in 1..Len(opts) : opts[i][1] = key][2])
    ELSE None

\* opts.require(key) and opts.require_or(key, default)
\* (variant of require: an empty value for a missing option)
require_lenient(opts, key) ==
    IF IsSome(OptGet(opts, key)) THEN Ok(Unwrap(OptGet(opts, key))) ELSE Ok("")
require(opts, key) ==
    IF IsSome(OptGet(opts, key))
    THEN Ok(Unwrap(OptGet(opts, key)))
    ELSE Err("required option '" \o key \o "' is not specified")
require_or(opts, key, default) ==
    IF IsSome(OptGet(opts, key)) THEN Unwrap(OptGet(opts, key)) ELSE default

DefaultBaseUrl == "https://docs.google.com/spreadsheets/d"

\* format!("{}/{}/gviz/tq?tqx=out:json", this.base_url, sheet_id)
\* (variant: no separator between the base address and the sheet id)
UrlNoSlash(base, sheet_id) == base \o sheet_id \o "/gviz/tq?tqx=out:json"
Url(base, sheet_id) == base \o "/" \o sheet_id \o "/gviz/tq?tqx=out:json"

\* the http::Request begin_scan builds
Request(base, sheet_id) ==
    [method  |-> "Get",
     url     |-> Url(base, sheet_id),
     headers |-> << <<"user-agent", "Sheets FDW">>,
                    <<"x-datasource-auth", "true">> >>,
     body    |-> ""]

\* the literal begin_scan strips from the response body
Prefix == ")]}'\n"

\* A response body is kept as its first Len(Prefix) characters (head) and
\* the text after them (rest); a text is either well-formed JSON, kept as
\* the value it parses to, or malformed, kept as the error serde_json
\* reports for it.
Body(head, rest) == [head |-> head, rest |-> rest]
JsonText(value) == [wf |-> TRUE, value |-> value]
BadText(err) == [wf |-> FALSE, err |-> err]

\* resp.body.strip_prefix(")]}'\n")
\* (variant: a body without the prefix is passed on to the parser)
strip_prefix_lenient(body, prefix) == Some(body.rest)
strip_prefix(body, prefix) == IF body.head = prefix THEN Some(body.rest) ELSE None

\* serde_json::from_str(body).map_err(|e| e.to_string())
from_str(text) == IF text.wf THEN Ok(text.value) ELSE Err(text.err)

\* resp_json.pointer("/table/rows").ok_or(..).map(|v| v.as_array().unwrap().to_owned())
\* (variant: the first record is dropped)
ExtractRowsTail(resp_json) ==
    LET v == Pointer(resp_json, <<"table", "rows">>) IN
    IF ~IsSome(v) THEN Err("cannot get rows from response")
    ELSE IF IsSome(as_array(Unwrap(v)))
         THEN Ok(IF Unwrap(v).a = <<>> THEN <<>> ELSE Tail(Unwrap(v).a))
    ELSE Panic
ExtractRows(resp_json) ==
    LET v == Pointer(resp_json, <<"table", "rows">>) IN
    IF ~IsSome(v) THEN Err("cannot get rows from response")
    ELSE IF IsSome(as_array(Unwrap(v))) THEN Ok(Unwrap(as_array(Unwrap(v))))
    ELSE Panic

\* begin_scan up to the assignment of this.src_rows: what it returns, the
\* rows it extracted if it got that far, and the requests it issued.  resp
\* is the answer of http::get to the request.
Fetch(base, opts, resp) ==
    LET sheet_id == require(opts, "sheet_id") IN
    IF IsErr(sheet_id)
    THEN [ret |-> sheet_id, rows |-> None, reqs |-> <<>>]
    ELSE
    LET req == Request(base, sheet_id.val) IN
    IF IsErr(resp)
    THEN [ret |-> resp, rows |-> None, reqs |-> <<req>>]
    ELSE
    LET body == strip_prefix(resp.val.body, Prefix) IN
    IF ~IsSome(body)
    THEN [ret |-> Err("invalid response"), rows |-> None, reqs |-> <<req>>]
    ELSE
    LET resp_json == from_str(Unwrap(body)) IN
    IF IsErr(resp_json)
    THEN [ret |-> resp_json, rows |-> None, reqs |-> <<req>>]
    ELSE
    LET rows == ExtractRows(resp_json.val) IN
    IF IsOk(rows)
    THEN [ret |-> Ok(Unit), rows |-> Some(rows.val), reqs |-> <<req>>]
    ELSE [ret |-> rows, rows |-> None, reqs |-> <<req>>]

\* utils::report_info(&format!("We got response array length: {}", ..))
ReportInfo(rows) == <<"We got response array length: " \o UsizeToString(Len(rows))>>

(***************************************************************************)
(* The inputs the host and the remote service hand to the operations.      *)
(***************************************************************************)
SeqsUpTo(S, n) == UNION {[1..k -> S] : k \in 0..n}

\* the cells a gviz record carries
CellNum == JObj([v |-> JNum(3), f |-> JStr("1.5")])
CellNeg == JObj([v |-> JNum(-3)])
CellStr == JObj([v |-> JStr("Erlich Bachman")])
CellNoV == JObj([f |-> JStr("x")])
CellVNull == JObj([v |-> JNull])
CellBool == JObj([v |-> JBool(TRUE)])
CellArr == JObj([v |-> JArr(<<JNum(2)>>)])
CellObj == JObj([v |-> JObj([a |-> JNum(2)])])

\* a gviz record {"c": [..]}
Rec(cells) == JObj([c |-> JArr(cells)])
\* a record keyed by field name
KeyedRec == JObj([id |-> JNum(2), name |-> JStr("Erlich Bachman")])

\* the records and the columns of the scan lifecycle
SrcRecords ==
    { Rec(<<CellNum, CellStr, JNull>>),
      Rec(<<CellNeg, CellVNull, CellBool>>) }
Columns ==
    { Column(1, "id", "I64"), Column(2, "name", "String"), Column(3, "flag", "Bool") }
ColumnLists == SeqsUpTo(Columns, MaxCols)

\* server options and table options
ServerOptions == { <<>>, << <<"base_url", "http://localhost:8080">> >> }
TableOptions == { <<>>, << <<"sheet_id", "sheet1">> >> }

\* the document a well-behaved service answers with
Document(rows) == JObj([version |-> JStr("0.6"), table |-> JObj([rows |-> JArr(rows)])])
GoodResponse(rows) == Ok([body |-> Body(Prefix, JsonText(Document(rows)))])

\* the answers of http::get that make begin_scan fail
BadResponses ==
    { Err("http: connection refused"),
      Ok([body |-> Body("/*O_o", BadText("expected value at line 1 column 1"))]),
      Ok([body |-> Body("{\"ver", JsonText(JStr("tail")))]),
      Ok([body |-> Body(Prefix, BadText("EOF while parsing a value at line 1 column 0"))]),
      Ok([body |-> Body(Prefix, JsonText(JObj([status |-> JStr("error")])))]),
      Ok([body |-> Body(Prefix, JsonText(JObj([table |-> JObj([rows |-> JNull])])))]),
      Ok([body |-> Body(Prefix, JsonText(JObj([table |-> JObj([rows |-> Rec(<<>>)])])))]) }
Responses == {GoodResponse(rows) : rows \in SeqsUpTo(SrcRecords, MaxRows)} \cup BadResponses

\* http::get answers only when begin_scan gets as far as calling it
NoResponse == Err("no request")
Answers(opts, resps) == IF IsOk(require(opts, "sheet_id")) THEN resps ELSE {NoResponse}

(***************************************************************************)
(* The operations of impl Guest for ExampleFdw.                            *)
(***************************************************************************)
\* init: a fresh default instance, then base_url from the server options
InitFdw(opts) ==
    /\ base_url' = require_or(opts, "base_url", DefaultBaseUrl)
    /\ src_rows' = <<>>
    /\ src_idx' = 0
    /\ call' = [op |-> "init", opts |-> opts]
    /\ ret' = Ok(Unit)
    /\ row' = <<>>
    /\ reqs' = <<>>
    /\ info' = <<>>
    /\ scan' = "closed"
    /\ served' = 0

Init ==
    \E opts \in ServerOptions :
        /\ base_url = require_or(opts, "base_url", DefaultBaseUrl)
        /\ src_rows = <<>>
        /\ src_idx = 0
        /\ call = [op |-> "init", opts |-> opts]
        /\ ret = Ok(Unit)
        /\ row = <<>>
        /\ reqs = <<>>
        /\ info = <<>>
        /\ scan = "closed"
        /\ served = 0

\* begin_scan; the variant clears src_rows before it fetches
BeginScanClearsFirst(opts, resp) ==
    LET f == Fetch(base_url, opts, resp) IN
    /\ src_rows' = IF IsSome(f.rows) THEN Unwrap(f.rows) ELSE <<>>
    /\ info' = IF IsSome(f.rows) THEN ReportInfo(Unwrap(f.rows)) ELSE <<>>
    /\ ret' = f.ret
    /\ reqs' = f.reqs
    /\ call' = [op |-> "begin_scan", opts |-> opts, resp |-> resp]
    /\ row' = <<>>
    /\ scan' = IF ~IsSome(f.rows) THEN scan
               ELSE IF scan = "closed" THEN "open" ELSE "reentered"
    /\ served' = IF IsSome(f.rows) THEN 0 ELSE served
    /\ UNCHANGED <<base_url, src_idx>>
\* the variant takes base_url from the table options again
BeginScanRebases(opts, resp) ==
    LET base == require_or(opts, "base_url", DefaultBaseUrl)
        f == Fetch(base, opts, resp)
    IN
    /\ base_url' = base
    /\ src_rows' = IF IsSome(f.rows) THEN Unwrap(f.rows) ELSE src_rows
    /\ info' = IF IsSome(f.rows) THEN ReportInfo(Unwrap(f.rows)) ELSE <<>>
    /\ ret' = f.ret
    /\ reqs' = f.reqs
    /\ call' = [op |-> "begin_scan", opts |-> opts, resp |-> resp]
    /\ row' = <<>>
    /\ scan' = IF ~IsSome(f.rows) THEN scan
               ELSE IF scan = "closed" THEN "open" ELSE "reentered"
    /\ served' = IF IsSome(f.rows) THEN 0 ELSE served
    /\ UNCHANGED src_idx
\* the variant issues the request a second time when the first attempt failed
BeginScanRetries(opts, resp) ==
    LET f == Fetch(base_url, opts, resp) IN
    /\ src_rows' = IF IsSome(f.rows) THEN Unwrap(f.rows) ELSE src_rows
    /\ info' = IF IsSome(f.rows) THEN ReportInfo(Unwrap(f.rows)) ELSE <<>>
    /\ ret' = f.ret
    /\ reqs' = IF IsSome(f.rows) THEN f.reqs ELSE f.reqs \o f.reqs
    /\ call' = [op |-> "begin_scan", opts |-> opts, resp |-> resp]
    /\ row' = <<>>
    /\ scan' = IF ~IsSome(f.rows) THEN scan
               ELSE IF scan = "closed" THEN "open" ELSE "reentered"
    /\ served' = IF IsSome(f.rows) THEN 0 ELSE served
    /\ UNCHANGED <<base_url, src_idx>>
BeginScan(opts, resp) ==
    LET f == Fetch(base_url, opts, resp) IN
    /\ src_rows' = IF IsSome(f.rows) THEN Unwrap(f.rows) ELSE src_rows
    /\ info' = IF IsSome(f.rows) THEN ReportInfo(Unwrap(f.rows)) ELSE <<>>
    /\ ret' = f.ret
    /\ reqs' = f.reqs
    /\ call' = [op |-> "begin_scan", opts |-> opts, resp |-> resp]
    /\ row' = <<>>
    /\ scan' = IF ~IsSome(f.rows) THEN scan
               ELSE IF scan = "closed" THEN "open" ELSE "reentered"
    /\ served' = IF IsSome(f.rows) THEN 0 ELSE served
    /\ UNCHANGED <<base_url, src_idx>>

\* iter_scan, handed an empty Row and the columns of the query
IterScan(cols) ==
    /\ call' = [op |-> "iter_scan", cols |-> cols]
    /\ reqs' = <<>>
    /\ info' = <<>>
    /\ UNCHANGED <<base_url, src_rows, scan>>
    /\ IF Consumed(src_idx, src_rows)
       THEN /\ ret' = Ok(None)
            /\ row' = <<>>
            /\ UNCHANGED <<src_idx, served>>
       ELSE LET m == Materialize(src_rows[src_idx + 1], cols, <<>>) IN
            /\ row' = m.cells
            /\ IF IsSome(m.err)
               THEN /\ ret' = Err(Unwrap(m.err))
                    /\ UNCHANGED <<src_idx, served>>
               ELSE /\ ret' = Ok(Some(0))
                    /\ src_idx' = Advance(src_idx)
                    /\ served' = served + 1

\* re_scan (variant: rewinding the cursor as well)
ReScanRewinds ==
    /\ call' = [op |-> "re_scan"]
    /\ ret' = Err("re_scan on foreign table is not supported")
    /\ row' = <<>>
    /\ reqs' = <<>>
    /\ info' = <<>>
    /\ src_idx' = 0
    /\ UNCHANGED <<base_url, src_rows, scan, served>>
ReScan ==
    /\ call' = [op |-> "re_scan"]
    /\ ret' = Err("re_scan on foreign table is not supported")
    /\ row' = <<>>
    /\ reqs' = <<>>
    /\ info' = <<>>
    /\ UNCHANGED <<base_url, src_rows, src_idx, scan, served>>

\* end_scan (variant: the buffered records are kept)
EndScanKeepsRows ==
    /\ call' = [op |-> "end_scan"]
    /\ ret' = Ok(Unit)
    /\ row' = <<>>
    /\ reqs' = <<>>
    /\ info' = <<>>
    /\ scan' = "closed"
    /\ served' = 0
    /\ UNCHANGED <<base_url, src_rows, src_idx>>
\* (variant: the whole instance goes back to its default)
EndScanResetsAll ==
    /\ src_rows' = <<>>
    /\ src_idx' = 0
    /\ base_url' = ""
    /\ call' = [op |-> "end_scan"]
    /\ ret' = Ok(Unit)
    /\ row' = <<>>
    /\ reqs' = <<>>
    /\ info' = <<>>
    /\ scan' = "closed"
    /\ served' = 0
EndScan ==
    /\ src_rows' = <<>>
    /\ call' = [op |-> "end_scan"]
    /\ ret' = Ok(Unit)
    /\ row' = <<>>
    /\ reqs' = <<>>
    /\ info' = <<>>
    /\ scan' = "closed"
    /\ served' = 0
    /\ UNCHANGED <<base_url, src_idx>>

\* an operation that only returns r
Returns(op, r) ==
    /\ call' = [op |-> op]
    /\ ret' = r
    /\ row' = <<>>
    /\ reqs' = <<>>
    /\ info' = <<>>
    /\ UNCHANGED <<base_url, src_rows, src_idx, scan, served>>

\* the write path (variant of begin_modify: the transaction is accepted)
BeginModifyAccepts == Returns("begin_modify", Ok(Unit))
BeginModify == Returns("begin_modify", Err("modify on foreign table is not supported"))
Insert == Returns("insert", Ok(Unit))
Update == Returns("update", Ok(Unit))
Delete == Returns("delete", Ok(Unit))
EndModify == Returns("end_modify", Ok(Unit))

Next ==
    \/ \E opts \in ServerOptions : InitFdw(opts)
    \/ \E opts \in TableOptions : \E resp \in Answers(opts, Responses) : BeginScan(opts, resp)
    \/ \E cols \in ColumnLists : IterScan(cols)
    \/ ReScan
    \/ EndScan
    \/ BeginModify
    \/ Insert
    \/ Update
    \/ Delete
    \/ EndModify

Spec == Init /\ [][Next]_vars

(***************************************************************************)
(* The row materialiser over a wider choice of records and columns: the    *)
(* same operations, scanning documents of one record each.                 *)
(***************************************************************************)
\* a record that is a positional array, and one whose "c" is an object
PositionalRec == JArr(<<JNum(2), JStr("Erlich Bachman")>>)
ObjectCellsRec == JObj([c |-> JObj([key \in {"0"} |-> CellNum])])

MatRecords ==
    { Rec(<<CellNum, CellStr>>), Rec(<<CellStr, CellNum>>), Rec(<<CellNeg>>),
      Rec(<<JNull>>), Rec(<<CellNoV>>), Rec(<<CellVNull>>), Rec(<<CellBool>>),
      Rec(<<CellArr>>), Rec(<<CellObj>>), Rec(<<>>),
      KeyedRec, PositionalRec, ObjectCellsRec }
MatColumns ==
    { Column(1, "id", "I64"), Column(1, "id", "String"), Column(1, "id", "Bool"),
      Column(2, "name", "String") }
MatColumnLists == SeqsUpTo(MatColumns, MaxCols)
MatResponses == {GoodResponse(<<rec>>) : rec \in MatRecords}
MatTableOptions == { << <<"sheet_id", "sheet1">> >> }

NextMat ==
    \/ \E opts \in ServerOptions : InitFdw(opts)
    \/ \E opts \in MatTableOptions : \E resp \in Answers(opts, MatResponses) : BeginScan(opts, resp)
    \/ \E cols \in MatColumnLists : IterScan(cols)

SpecMat == Init /\ [][NextMat]_vars

(***************************************************************************)
(* Properties.                                                             *)
(***************************************************************************)
\* the table.rows array of the response a begin_scan call was answered with
FetchedRows(c) == Unwrap(Pointer(c.resp.val.body.rest.value, <<"table", "rows">>)).a

IsPull(c) == c.op = "iter_scan"
Pulled(r) == r.tag = "Ok" /\ r.val = Some(0)
Exhausted(r) == r.tag = "Ok" /\ r.val = None
Supported(col) == col.type_oid \in {"I64", "String"}
AllSupported(cols) == \A i \in 1..Len(cols) : Supported(cols[i])
UnsupportedMsg(col) == "column " \o col.name \o " data type is not supported"

\* C1: every successful begin_scan of a sequence of scans (each begin_scan
\* called with the scan before it ended) leaves the cursor at 0 and src_rows
\* equal to the fetched table.rows array.
C1_BeginScanResets ==
    [][ (call'.op = "begin_scan" /\ IsOk(ret') /\ scan = "closed")
            => (src_idx' = 0 /\ src_rows' = FetchedRows(call')) ]_vars

\* C2: in a scan opened by a successful begin_scan that buffered n records,
\* pulls with columns of supported types return Some(row) exactly n times
\* and None from then on, a None pull pushing no cell: a pull that returns
\* Some is at most the n-th of the scan, a pull that returns None comes after
\* exactly n rows were served, and no such pull fails.
C2_ServesEveryRecordOnce ==
    (IsPull(call) /\ scan = "open" /\ AllSupported(call.cols))
        => \/ Pulled(ret) /\ served <= Len(src_rows)
           \/ Exhausted(ret) /\ served = Len(src_rows) /\ row = <<>>

\* C3: the cursor never exceeds the number of buffered records.
C3_CursorWithinRecords == src_idx <= Len(src_rows)

\* C4: a pull on a non-exhausted scan that requests a column of a type other
\* than I64 or String fails with the error that names such a column, whether
\* or not the record has a cell for it.
C4_UnsupportedTypeAlwaysFails ==
    [][ (IsPull(call') /\ ~Consumed(src_idx, src_rows)
            /\ \E i \in 1..Len(call'.cols) : ~Supported(call'.cols[i]))
          => \E i \in 1..Len(call'.cols) :
                /\ ~Supported(call'.cols[i])
                /\ ret' = Err(UnsupportedMsg(call'.cols[i])) ]_vars

\* the record a pull reads, and the source value it finds for a column
Current == src_rows[src_idx + 1]
\* i is n/2 with its fraction dropped
Truncates(n, i) ==
    /\ n >= 0 => (2 * i <= n /\ n < 2 * i + 2)
    /\ n < 0 => (2 * i >= n /\ n > 2 * i - 2)
\* the cell the claims expect for a source value under a supported column
CellAsClaimed(col, v, cell) ==
    CASE col.type_oid = "I64" /\ v.k = "num" ->
            /\ IsSome(cell)
            /\ Unwrap(cell).t = "I64"
            /\ Truncates(v.n, Unwrap(cell).i)
      [] col.type_oid = "String" /\ v.k = "str" ->
            cell = Some(CellString(v.s))
      [] OTHER -> cell = None
\* column i of the pull is the one the pull failed at
FailedAt(i) == IsErr(ret') /\ Len(row') + 1 = i

\* C5: in every pull, a requested I64 or String column whose source cell is
\* present gets a present I64 cell holding the truncated number when the
\* value is a number under I64, a present String cell holding the same text
\* when it is a string under String, and an absent cell for any other kind of
\* value; the pull never fails at such a column.
C5_CoercionMatrix ==
    [][ (IsPull(call') /\ ~Consumed(src_idx, src_rows))
          => \A i \in 1..Len(call'.cols) :
                LET col == call'.cols[i]
                    src == SrcCell(Current, col.num)
                IN  (Supported(col) /\ IsSome(src))
                      => /\ ~FailedAt(i)
                         /\ i <= Len(row') => CellAsClaimed(col, Unwrap(src), row'[i]) ]_vars

\* C5 witness: a pull turned the number -1.5 under an I64 column into the
\* cell I64(-1).
C5_Witness ==
    /\ IsPull(call) /\ Pulled(ret)
    /\ \E i \in 1..Len(row) :
          /\ call.cols[i].type_oid = "I64"
          /\ src_rows[src_idx] = Rec(<<CellNeg>>)
          /\ row[i] = Some(CellI64(-1))

\* C6: in every pull, a requested I64 or String column for which the record
\* has no cell (no such position, a null entry, no "v" slot) gets an absent
\* cell and the pull does not fail at it; a pull that requests supported
\* columns only succeeds with one cell per column.
C6_MissingCellIsAbsent ==
    [][ (IsPull(call') /\ ~Consumed(src_idx, src_rows))
          => /\ \A i \in 1..Len(call'.cols) :
                   LET col == call'.cols[i] IN
                   (Supported(col) /\ ~IsSome(SrcCell(Current, col.num)))
                      => /\ ~FailedAt(i)
                         /\ i <= Len(row') => row'[i] = None
             /\ AllSupported(call'.cols)
                   => (Pulled(ret') /\ Len(row') = Len(call'.cols)) ]_vars

\* C6 witness: a pull served a record with a null entry at the position of
\* a requested I64 column and pushed an absent cell for it.
C6_Witness ==
    /\ IsPull(call) /\ Pulled(ret)
    /\ src_rows[src_idx] = Rec(<<JNull>>)
    /\ call.cols = <<Column(1, "id", "I64")>>
    /\ row = <<None>>

\* C7: a pull that returns Some has pushed exactly one cell per requested
\* column, in the order requested, the i-th cell being the one derived from
\* the source cell at the i-th column's position.
C7_OneCellPerColumnInOrder ==
    [][ (IsPull(call') /\ Pulled(ret'))
          => /\ Len(row') = Len(call'.cols)
             /\ \A i \in 1..Len(call'.cols) :
                   LET col == call'.cols[i]
                       src == SrcCell(Current, col.num)
                   IN  row'[i] = IF IsSome(src) THEN Coerce(col, Unwrap(src)).val
                                 ELSE None ]_vars

\* C7 witness: a pull of the columns (name, id) served the record
\* (1.5, "Erlich Bachman") as the row (text, integer).
C7_Witness ==
    /\ IsPull(call) /\ Pulled(ret)
    /\ src_rows[src_idx] = Rec(<<CellNum, CellStr>>)
    /\ call.cols = <<Column(2, "name", "String"), Column(1, "id", "I64")>>
    /\ row = <<Some(CellString("Erlich Bachman")), Some(CellI64(1))>>

\* C8: a pull never changes the buffered records; it advances the cursor by
\* exactly one when it returns Some and leaves it alone when it returns None
\* or fails, so that repeating a failed pull with the same columns fails the
\* same way on the same record.
C8_CursorAdvancesOnSomeOnly ==
    [][ IsPull(call')
          => /\ src_rows' = src_rows
             /\ Pulled(ret') => src_idx' = src_idx + 1
             /\ ~Pulled(ret') => src_idx' = src_idx
             /\ (IsPull(call) /\ IsErr(ret) /\ call'.cols = call.cols)
                   => (ret' = ret /\ row' = row) ]_vars

\* C8 witness: a pull has failed on the second of two buffered records,
\* after the first was served.
C8_Witness ==
    /\ IsPull(call) /\ IsErr(ret)
    /\ src_idx = 1 /\ Len(src_rows) = 2

\* C9: re_scan fails with its "not supported" error and leaves base_url,
\* src_rows and src_idx as they were, in whatever state it is called.
C9_ReScanNotSupported ==
    [][ call'.op = "re_scan"
          => /\ ret' = Err("re_scan on foreign table is not supported")
             /\ UNCHANGED <<base_url, src_rows, src_idx>> ]_vars

\* C9 witness: re_scan was called in the middle of a scan, one of two
\* records served.
C9_Witness ==
    /\ call.op = "re_scan"
    /\ scan = "open" /\ src_idx = 1 /\ Len(src_rows) = 2

\* C10 as claimed: a failed begin_scan stores nothing, src_rows and the
\* cursor staying as they were, and the pull that follows it returns None
\* rather than a row.
C10_FailedBeginScanLeavesNothing ==
    [][ /\ (call'.op = "begin_scan" /\ IsErr(ret'))
              => (src_rows' = src_rows /\ src_idx' = src_idx)
        /\ (call.op = "begin_scan" /\ IsErr(ret) /\ IsPull(call'))
              => Exhausted(ret') ]_vars

\* C10 as amended: a failed begin_scan leaves src_rows and the cursor as they
\* were, and the pull that follows it returns None whenever no unconsumed
\* record was buffered when begin_scan was called.
C10_FailedBeginScanStoresNothing ==
    [][ /\ (call'.op = "begin_scan" /\ IsErr(ret'))
              => (src_rows' = src_rows /\ src_idx' = src_idx)
        /\ (call.op = "begin_scan" /\ IsErr(ret) /\ IsPull(call')
               /\ Consumed(src_idx, src_rows))
              => (Exhausted(ret') /\ row' = <<>>) ]_vars

\* C10 witness: begin_scan has failed on a response without the prefix
\* while two records were buffered and one of them served.
C10_Witness ==
    /\ call.op = "begin_scan" /\ ret = Err("invalid response")
    /\ Len(src_rows) = 2 /\ src_idx = 1

\* a begin_scan call that got as far as a response, and the parts of it
Answered(c) ==
    c.op = "begin_scan" /\ IsSome(OptGet(c.opts, "sheet_id")) /\ IsOk(c.resp)
HasPrefix(c) == c.resp.val.body.head = ")]}'\n"
WellFormed(c) == c.resp.val.body.rest.wf
RowsValue(c) == Pointer(c.resp.val.body.rest.value, <<"table", "rows">>)
NoRowsMsg == "cannot get rows from response"

\* C11: begin_scan returns its "cannot get rows" error both when the parsed
\* response has nothing at table.rows and when what is there is not an array.
C11_NonArrayRowsIsAnError ==
    (Answered(call) /\ HasPrefix(call) /\ WellFormed(call)
        /\ (~IsSome(RowsValue(call)) \/ Unwrap(RowsValue(call)).k # "arr"))
      => ret = Err(NoRowsMsg)

\* C12: begin_scan called without the table option sheet_id fails, issues
\* no HTTP request, and leaves base_url, src_rows and src_idx as they were.
C12_MissingSheetIdFailsFirst ==
    [][ (call'.op = "begin_scan" /\ ~IsSome(OptGet(call'.opts, "sheet_id")))
          => /\ IsErr(ret')
             /\ reqs' = <<>>
             /\ UNCHANGED <<base_url, src_rows, src_idx>> ]_vars

\* C12 witness: begin_scan without sheet_id has failed in the middle of a
\* scan, one of two buffered records served.
C12_Witness ==
    /\ call.op = "begin_scan" /\ call.opts = <<>> /\ IsErr(ret)
    /\ reqs = <<>>
    /\ Len(src_rows) = 2 /\ src_idx = 1

\* C13: begin_scan checks a response in a fixed order: a body without the
\* prefix yields "invalid response" whatever follows it; a body with the
\* prefix and malformed JSON yields the parser's error; the "cannot get rows"
\* error is returned only for a body with the prefix and well-formed JSON.
C13_ChecksInOrder ==
    Answered(call)
      => /\ ~HasPrefix(call) => ret = Err("invalid response")
         /\ (HasPrefix(call) /\ ~WellFormed(call))
               => ret = Err(call.resp.val.body.rest.err)
         /\ (HasPrefix(call) /\ WellFormed(call) /\ ~IsSome(RowsValue(call)))
               => ret = Err(NoRowsMsg)
         /\ ret = Err(NoRowsMsg) => (HasPrefix(call) /\ WellFormed(call))

\* C13 witness: begin_scan has answered "invalid response" to a body that
\* lacks the prefix and is malformed JSON as well.
C13_Witness ==
    /\ Answered(call) /\ ~HasPrefix(call) /\ ~WellFormed(call)
    /\ ret = Err("invalid response")

\* C14: for a response with the prefix, well-formed JSON and an array at
\* table.rows, begin_scan succeeds and src_rows is that array: the same
\* length, the same records, the same order.
C14_BuffersTableRows ==
    (Answered(call) /\ HasPrefix(call) /\ WellFormed(call)
        /\ IsSome(RowsValue(call)) /\ Unwrap(RowsValue(call)).k = "arr")
      => /\ ret = Ok(Unit)
         /\ Len(src_rows) = Len(Unwrap(RowsValue(call)).a)
         /\ \A i \in 1..Len(src_rows) : src_rows[i] = Unwrap(RowsValue(call)).a[i]

\* C14 witness: begin_scan has buffered two different records.
C14_Witness ==
    /\ call.op = "begin_scan" /\ ret = Ok(Unit)
    /\ Len(src_rows) = 2 /\ src_rows[1] # src_rows[2]

\* C15: end_scan returns Ok, leaves src_rows empty and base_url as it was,
\* and a begin_scan called right after it requests the URL built from that
\* same base_url.
C15_EndScanKeepsBaseUrl ==
    [][ /\ call'.op = "end_scan"
            => (ret' = Ok(Unit) /\ src_rows' = <<>> /\ base_url' = base_url)
        /\ (call.op = "end_scan" /\ call'.op = "begin_scan" /\ reqs' # <<>>)
            => reqs'[1].url = base_url \o "/"
                                \o Unwrap(OptGet(call'.opts, "sheet_id"))
                                \o "/gviz/tq?tqx=out:json" ]_vars

\* end_scan closed a scan of two records that was pulled to its end, on an
\* instance configured with a base_url of its own
C15_Witness ==
    /\ call.op = "end_scan"
    /\ ret = Ok(Unit)
    /\ src_rows = <<>>
    /\ src_idx = 2
    /\ base_url = "http://localhost:8080"

ModifyOps == {"begin_modify", "insert", "update", "delete", "end_modify"}
NotSupportedMsg == "modify on foreign table is not supported"

\* C16: begin_modify returns the not-supported error; insert, update, delete
\* and end_modify return Ok; and each of the five leaves base_url, src_rows
\* and src_idx as they were and issues no request, in every state.
C16_WritePathIsInert ==
    [][ call'.op \in ModifyOps
          => /\ ret' = IF call'.op = "begin_modify" THEN Err(NotSupportedMsg)
                       ELSE Ok(Unit)
             /\ reqs' = <<>>
             /\ UNCHANGED <<base_url, src_rows, src_idx>> ]_vars

\* begin_modify was refused in the middle of a scan: one of two buffered
\* records served
C16_Witness ==
    /\ call.op = "begin_modify"
    /\ IsErr(ret)
    /\ scan = "open"
    /\ Len(src_rows) = 2
    /\ src_idx = 1

\* C17: a begin_scan call that has its sheet_id issues exactly one request,
\* whatever the answer to it (none when sheet_id is missing: the call fails
\* before the request), and iter_scan, re_scan and end_scan issue none.
C17_OneRequestPerScan ==
    /\ call.op = "begin_scan"
          => Len(reqs) = IF IsSome(OptGet(call.opts, "sheet_id")) THEN 1 ELSE 0
    /\ call.op \in {"iter_scan", "re_scan", "end_scan"} => reqs = <<>>

\* begin_scan failed on the transport with one request issued
C17_Witness ==
    /\ call.op = "begin_scan"
    /\ ret = Err("http: connection refused")
    /\ Len(reqs) = 1

\* C18: the request of begin_scan is a Get with an empty body, the URL
\* base_url/sheet_id/gviz/tq?tqx=out:json and the two headers user-agent and
\* x-datasource-auth: true; after init, base_url is the server option
\* base_url if there is one and https://docs.google.com/spreadsheets/d if not.
C18_RequestShape ==
    /\ (call.op = "begin_scan" /\ reqs # <<>>)
          => /\ Len(reqs) = 1
             /\ reqs[1].method = "Get"
             /\ reqs[1].body = ""
             /\ reqs[1].url = base_url \o "/"
                                \o Unwrap(OptGet(call.opts, "sheet_id"))
                                \o "/gviz/tq?tqx=out:json"
             /\ Len(reqs[1].headers) = 2
             /\ reqs[1].headers[1][1] = "user-agent"
             /\ reqs[1].headers[2] = <<"x-datasource-auth", "true">>
    /\ call.op = "init"
          => base_url = IF IsSome(OptGet(call.opts, "base_url"))
                        THEN Unwrap(OptGet(call.opts, "base_url"))
                        ELSE "https://docs.google.com/spreadsheets/d"

\* begin_scan on an instance without a base_url option requested the sheet
\* from the default address
C18_Witness ==
    /\ call.op = "begin_scan"
    /\ reqs # <<>>
    /\ reqs[1].url = "https://docs.google.com/spreadsheets/d/sheet1/gviz/tq?tqx=out:json"
    /\ reqs[1].method = "Get"

\* a record that is an object keyed by field name
Keyed(rec) == rec.k = "obj" /\ "c" \notin DOMAIN rec.o

\* C19: a pull resolves each cell by the shape of the record: for a record
\* {"c": [..]} a string in the v slot of element num - 1, and for a record
\* keyed by field name a string under the column's name, give a present
\* text cell under a String column.
C19_BothAddressings ==
    [][ (IsPull(call') /\ ~Consumed(src_idx, src_rows))
          => \A i \in 1..Len(row') :
                LET col == call'.cols[i]
                    rec == Current
                IN  /\ (/\ col.type_oid = "String"
                         /\ ~Keyed(rec)
                         /\ IsSome(SrcCell(rec, col.num))
                         /\ Unwrap(SrcCell(rec, col.num)).k = "str")
                        => row'[i] = Some(CellString(Unwrap(SrcCell(rec, col.num)).s))
                    /\ (/\ col.type_oid = "String"
                         /\ Keyed(rec)
                         /\ col.name \in DOMAIN rec.o
                         /\ rec.o[col.name].k = "str")
                        => row'[i] = Some(CellString(rec.o[col.name].s)) ]_vars

\* C20: a begin_scan called while a scan is open is either refused with
\* base_url, src_rows and src_idx unchanged, or succeeds with src_rows the
\* fetched table.rows array and src_idx = 0.
C20_ReentrantBeginScan ==
    [][ (call'.op = "begin_scan" /\ scan # "closed")
          => \/ ~IsOk(ret') /\ UNCHANGED <<base_url, src_rows, src_idx>>
             \/ IsOk(ret') /\ src_rows' = FetchedRows(call') /\ src_idx' = 0 ]_vars
\* C21: from end_scan until the next successful begin_scan (begin_scan calls
\* that fail in between included) every pull, whatever columns it requests,
\* returns None, pushes no cell and leaves the cursor where it was; the
\* same holds from init until the first successful begin_scan.
C21_NothingServedAfterEndScan ==
    [][ (IsPull(call') /\ scan = "closed")
          => (Exhausted(ret') /\ row' = <<>> /\ src_idx' = src_idx) ]_vars

\* a pull that requested columns returned None after end_scan closed a scan
\* that had served one record
C21_Witness ==
    /\ IsPull(call)
    /\ scan = "closed"
    /\ src_idx = 1
    /\ Exhausted(ret)
    /\ row = <<>>
    /\ call.cols # <<>>

\* C22: every operation other than init leaves base_url as it was, and the
\* request of a begin_scan is addressed below the base_url the instance had
\* before the call.
C22_BaseUrlWrittenByInitOnly ==
    [][ /\ call'.op # "init" => base_url' = base_url
        /\ (call'.op = "begin_scan" /\ reqs' # <<>>)
            => reqs'[1].url = Url(base_url, Unwrap(OptGet(call'.opts, "sheet_id"))) ]_vars

\* a second scan of an instance configured with its own base_url was begun
\* and answered; the instance still has that base_url
C22_Witness ==
    /\ call.op = "begin_scan"
    /\ IsOk(ret)
    /\ src_idx > 0
    /\ base_url = "http://localhost:8080"

\* C23: a pull that fails with the unsupported-type error fails at the column
\* after the cells it pushed: that column is of an unsupported type and the
\* error names it, each column before it has its one cell (the coerced source
\* value, or absent when the record has no cell for it), and the cursor is
\* where it was.
C23_FailedPullKeepsEarlierCells ==
    [][ (IsPull(call') /\ IsErr(ret'))
          => LET k == Len(row') + 1 IN
             /\ k <= Len(call'.cols)
             /\ ~Supported(call'.cols[k])
             /\ ret' = Err(UnsupportedMsg(call'.cols[k]))
             /\ \A i \in 1..(k - 1) :
                   LET col == call'.cols[i]
                       src == SrcCell(Current, col.num)
                   IN  /\ (Supported(col) /\ IsSome(src))
                            => CellAsClaimed(col, Unwrap(src), row'[i])
                       /\ ~IsSome(src) => row'[i] = None
             /\ src_idx' = src_idx ]_vars

\* a pull of the columns (id as text, id as Bool) failed at the second
\* column with the text cell of the first already pushed
C23_Witness ==
    /\ IsPull(call)
    /\ ret = Err(UnsupportedMsg(Column(1, "id", "Bool")))
    /\ call.cols = <<Column(1, "id", "String"), Column(1, "id", "Bool")>>
    /\ row = <<Some(CellString("Erlich Bachman"))>>
    /\ src_idx = 0
====
